---- MODULE Spec2Model ----
(***************************************************************************)
(* retirement_estimator (src/main.py): a straight-line script.  It parses  *)
(* the command line, builds two closed-form expressions of net worth as a  *)
(* function of age, prints a few evaluations of them and plots the curve.  *)
(*                                                                         *)
(* One action per statement group of the script; pc is the position of the *)
(* interpreter.  An uncaught exception ends the run (pc = "crashed",       *)
(* status 1, exc names the exception type); argparse's own rejection ends  *)
(* it with a usage message and status 2.                                   *)
(*                                                                         *)
(* Arithmetic.  The script computes in binary floating point through       *)
(* sympy.  The model computes in exact real arithmetic:                    *)
(*   - a rational is a pair <<n, d>>, d > 0, in lowest terms;              *)
(*   - a value that involves exp is a finite sum  SUM k_i * e^(x_i)  with  *)
(*     rational k_i # 0 and distinct rational x_i, kept as the set of its  *)
(*     terms [e |-> x_i, k |-> k_i].  By the Lindemann-Weierstrass theorem *)
(*     two such sums are the same real number iff they are the same set,   *)
(*     so equality of values is equality of sets;                          *)
(*   - the age  ln(q)/r + t  of the inverse is kept as that term.          *)
(* Rounding error of the floating-point evaluation is outside the model.   *)
(***************************************************************************)
EXTENDS Integers, Sequences, FiniteSets

VARIABLES pc, args, birthdate, worth_0, date_0,
          working_salary, working_inv_return, working_spending,
          retirement_age, retired_salary, retired_inv_return, retired_spending,
          age_0, worth_work, worth_ret, age_by_worth,
          break_even_worth, break_even_age,
          stdout, exc, status, usage, plotted,
          call, ret

vars == <<pc, args, birthdate, worth_0, date_0,
          working_salary, working_inv_return, working_spending,
          retirement_age, retired_salary, retired_inv_return, retired_spending,
          age_0, worth_work, worth_ret, age_by_worth,
          break_even_worth, break_even_age,
          stdout, exc, status, usage, plotted,
          call, ret>>

profile == <<worth_0, working_salary, working_inv_return, working_spending,
             retirement_age, retired_salary, retired_inv_return,
             retired_spending, age_0>>

exprs == <<worth_work, worth_ret, age_by_worth, break_even_worth, break_even_age>>

dateCall == <<call, ret>>

----------------------------------------------------------------------------
(* Python's None and a present value.                                      *)

None == <<>>

Some(x) == <<x>>

Val(o) == o[1]

----------------------------------------------------------------------------
(* Exact rationals: the float arithmetic of lines 51-78.                   *)

Abs(x) == IF x < 0 THEN -x ELSE x

RECURSIVE GCD(_, _)
GCD(a, b) == IF b = 0 THEN a ELSE GCD(b, a % b)

Rat(n, d) ==
    LET g == GCD(Abs(n), Abs(d))
        s == IF d < 0 THEN -1 ELSE 1
    IN  <<(s * n) \div g, (s * d) \div g>>

IntRat(n) == <<n, 1>>

Zero == <<0, 1>>

One == <<1, 1>>

RatNeg(p) == <<-p[1], p[2]>>

RatAdd(p, q) ==
    LET g == GCD(p[2], q[2])
    IN  Rat(p[1] * (q[2] \div g) + q[1] * (p[2] \div g), (p[2] \div g) * q[2])

RatSub(p, q) == RatAdd(p, RatNeg(q))

RatMul(p, q) ==
    LET a == Rat(p[1], q[2])
        b == Rat(q[1], p[2])
    IN  <<a[1] * b[1], a[2] * b[2]>>

RatDiv(p, q) == RatMul(p, Rat(q[2], q[1]))

RatSign(p) == IF p[1] > 0 THEN 1 ELSE IF p[1] < 0 THEN -1 ELSE 0

RatLeq(p, q) == RatSign(RatSub(p, q)) <= 0

(* int(x): truncation toward zero.                                         *)
Trunc(p) == IF p[1] >= 0 THEN p[1] \div p[2] ELSE -((-p[1]) \div p[2])

(* The integer a fixed-point format with no decimals shows: the nearest    *)
(* integer, a tie going to the even one.                                   *)
RoundHalfEven(p) ==
    LET f == p[1] \div p[2]
        r == p[1] - f * p[2]
    IN  IF 2 * r < p[2] THEN f
        ELSE IF 2 * r > p[2] THEN f + 1
        ELSE IF f % 2 = 0 THEN f ELSE f + 1

----------------------------------------------------------------------------
(* Sums of exponentials  SUM k * e^x.                                      *)

PolyConst(q) == IF q = Zero THEN {} ELSE {[e |-> Zero, k |-> q]}

PolyExps(P) == {t.e : t \in P}

Coef(P, x) == IF \E t \in P : t.e = x THEN (CHOOSE t \in P : t.e = x).k ELSE Zero

PolyAdd(P, Q) ==
    LET E == PolyExps(P) \cup PolyExps(Q)
        S(x) == RatAdd(Coef(P, x), Coef(Q, x))
    IN  {[e |-> x, k |-> S(x)] : x \in {y \in E : S(y) # Zero}}

(* P * exp(x)                                                              *)
PolyMulExp(P, x) == {[e |-> RatAdd(t.e, x), k |-> t.k] : t \in P}

(* An expression  coef * exp(rate * (age - t0)) - shift  in the symbol age, *)
(* and its value at an age (sympy's subs).                                 *)
Subs(expr, a) ==
    PolyAdd(PolyMulExp(expr.coef, RatMul(expr.rate, RatSub(a, expr.t0))),
            PolyConst(RatNeg(expr.shift)))

----------------------------------------------------------------------------
(* Calendar dates: datetime.strptime(s, '%Y-%m-%d').date() and date        *)
(* arithmetic.  A date string is the triple of numbers its three fields    *)
(* hold; a date is its proleptic Gregorian ordinal.                        *)

IsLeap(y) == (y % 4 = 0) /\ ((y % 100 # 0) \/ (y % 400 = 0))

DaysInMonth(y, m) ==
    IF m = 2 THEN (IF IsLeap(y) THEN 29 ELSE 28)
    ELSE IF m \in {4, 6, 9, 11} THEN 30 ELSE 31

RECURSIVE DaysBeforeMonth(_, _)
DaysBeforeMonth(y, m) ==
    IF m = 1 THEN 0 ELSE DaysBeforeMonth(y, m - 1) + DaysInMonth(y, m - 1)

DaysBeforeYear(y) ==
    LET p == y - 1 IN p * 365 + (p \div 4) - (p \div 100) + (p \div 400)

WellFormed(s) ==
    /\ s[1] \in 1..9999
    /\ s[2] \in 1..12
    /\ s[3] \in 1..DaysInMonth(s[1], s[2])

Strptime(s) == DaysBeforeYear(s[1]) + DaysBeforeMonth(s[1], s[2]) + s[3]

----------------------------------------------------------------------------
(* The command line.  Each set is what the run may be started with; an     *)
(* absent optional argument is None.  Return rates are given in percent.   *)

DefaultWorkingReturnPct == 6

DefaultRetiredReturnPct == 4

DefaultRetiredSalary == 0

Malformed == <<1990, 2, 30>>

BirthdateArgs == {None, <<1990, 1, 1>>, Malformed}

NetWorthArgs == {100000, 100, -50000}

NetWorthDateArgs == {None, <<2024, 1, 1>>, <<2024, 13, 1>>}

Todays == {<<2026, 11, 6>>}

WorkingSalaryArgs == {120000, 0}

WorkingSpendingArgs == {80000, 6, 0}

WorkingReturnArgs == {None, Some(0), Some(3)}

RetirementAgeArgs == {65, 30}

RetiredSalaryArgs == {None, Some(20000)}

RetiredReturnArgs == {None, Some(0)}

RetiredSpendingArgs == {60000, 69, 4}

TargetDateArgs == {None, <<2030, 6, 15>>, <<2030, 2, 30>>}

TargetWorthArgs == {None, Some(0), Some(50), Some(1000000)}

(* argparse: the value given, or the option's default.                     *)
OrDefault(o, d) == IF o = None THEN d ELSE Val(o)

Pct(p) == Rat(p, 100)

NoArgs ==
    [birthdate |-> None, net_worth |-> 0, net_worth_date |-> None,
     working_salary |-> 0, working_investment_return |-> None,
     working_spending |-> 0, retirement_age |-> 0, retired_salary |-> 0,
     retired_investment_return |-> None, retired_spending |-> 0,
     target_date |-> None, target_worth |-> None]

NoExc == [type |-> "None", at |-> "None"]

(* if x: of an optional string, and of an optional int.                    *)
TruthyStr(o) == o # None

TruthyInt(o) == o # None /\ Val(o) # 0

----------------------------------------------------------------------------
(* Output lines.  value is the exact value the line formats; shown is the  *)
(* integer a ',.0f' format prints, where the value is rational.            *)

Line(label, date, value, shown) ==
    [label |-> label, date |-> date, value |-> value, shown |-> shown]

Blank == Line("", None, None, None)

Printed(label) == \E i \in DOMAIN stdout : stdout[i].label = label

LineOf(label) == stdout[CHOOSE i \in DOMAIN stdout : stdout[i].label = label]

----------------------------------------------------------------------------
(* The model's expressions.                                                *)

DaysPerYear == Rat(1461, 4)

(* line 51 *)
Age0 == RatDiv(IntRat(Val(date_0) - Val(birthdate)), DaysPerYear)

(* A variant of ageToDate that takes the floor (// 1) in place of int().   *)
ageToDate_Floor(a) ==
    LET x == RatMul(a, DaysPerYear) IN Val(birthdate) + (x[1] \div x[2])

(* lines 53-54 *)
ageToDate(a) == Val(birthdate) + Trunc(RatMul(a, DaysPerYear))

(* A variant of line 61 that counts the working years from birth, not from *)
(* the reference age.                                                      *)
WorthWorkExpr_FromBirth ==
    LET flow == RatDiv(RatSub(working_salary, working_spending), working_inv_return)
    IN  [coef |-> PolyConst(RatAdd(worth_0, flow)),
         rate |-> working_inv_return, t0 |-> Zero, shift |-> flow]

(* line 61 *)
WorthWorkExpr ==
    LET flow == RatDiv(RatSub(working_salary, working_spending), working_inv_return)
    IN  [coef |-> PolyConst(RatAdd(worth_0, flow)),
         rate |-> working_inv_return, t0 |-> age_0, shift |-> flow]

(* A variant of line 62 that keeps the working phase's exponent           *)
(* (age - age_0) in the retired phase.                                     *)
WorthRetExpr_FromReference ==
    LET flow == RatDiv(RatSub(retired_salary, retired_spending), retired_inv_return)
    IN  [coef |-> PolyAdd(Subs(Val(worth_work), retirement_age), PolyConst(flow)),
         rate |-> retired_inv_return, t0 |-> age_0, shift |-> flow]

(* line 62 *)
WorthRetExpr ==
    LET flow == RatDiv(RatSub(retired_salary, retired_spending), retired_inv_return)
    IN  [coef |-> PolyAdd(Subs(Val(worth_work), retirement_age), PolyConst(flow)),
         rate |-> retired_inv_return, t0 |-> retirement_age, shift |-> flow]

(* line 64: Piecewise((worth_work, age <= retirement_age), (worth_ret, age > retirement_age)) *)
worth_by_age(a) ==
    IF RatLeq(a, retirement_age) THEN Subs(Val(worth_work), a)
    ELSE Subs(Val(worth_ret), a)

(* line 75: ln((worth + shift) / den) / rate + off in the symbol worth.    *)
(* Dividing by a zero float in sympy gives zoo, no exception.              *)
AgeByWorthExpr ==
    LET flow == RatDiv(RatSub(working_salary, working_spending), working_inv_return)
    IN  [shift |-> flow, den |-> RatAdd(worth_0, flow),
         rate |-> working_inv_return, off |-> age_0]

(* age_by_worth.subs(worth, w).  The logarithm of a positive number is a   *)
(* real age; of a negative one a complex number; of 0, zoo; 0 * zoo, nan.  *)
AgeSubs(expr, w) ==
    LET num == RatAdd(w, expr.shift)
        q   == IF expr.den = Zero THEN Zero ELSE RatDiv(num, expr.den)
        kind == IF expr.den = Zero
                  THEN (IF num = Zero THEN "nan" ELSE "zoo")
                  ELSE IF RatSign(q) > 0 THEN "real"
                  ELSE IF RatSign(q) = 0 THEN "zoo" ELSE "complex"
    IN  [kind |-> kind, arg |-> q, rate |-> expr.rate, off |-> expr.off]

(* A variant of line 78 that reads the retired salary from the command     *)
(* line while line 62 keeps reading the variable of line 47.               *)
BreakEvenWorth_FromArgs ==
    RatDiv(RatMul(IntRat(-1), RatSub(IntRat(args.retired_salary), retired_spending)),
           retired_inv_return)

(* line 78 *)
BreakEvenWorth ==
    RatDiv(RatMul(IntRat(-1), RatSub(retired_salary, retired_spending)),
           retired_inv_return)

(* The date printed beside an age: evaluated where the age is rational     *)
(* (ln 1 = 0); otherwise the line keeps the age term alone.                *)
DateOfAge(a) == IF a.arg = One THEN Some(ageToDate(a.off)) ELSE None

----------------------------------------------------------------------------
(* The run.                                                                *)

Init ==
    /\ pc = "parse_args"
    /\ args = NoArgs
    /\ birthdate = None /\ worth_0 = None /\ date_0 = None
    /\ working_salary = None /\ working_inv_return = None
    /\ working_spending = None /\ retirement_age = None
    /\ retired_salary = None /\ retired_inv_return = None
    /\ retired_spending = None /\ age_0 = None
    /\ worth_work = None /\ worth_ret = None /\ age_by_worth = None
    /\ break_even_worth = None /\ break_even_age = None
    /\ stdout = <<>>
    /\ exc = NoExc
    /\ status = None
    /\ usage = FALSE
    /\ plotted = FALSE
    /\ call = None /\ ret = None

(* An uncaught exception: the traceback goes to stderr, the exit status is 1. *)
Raise(type) ==
    /\ exc' = [type |-> type, at |-> pc]
    /\ pc' = "crashed"
    /\ status' = Some(1)
    /\ UNCHANGED usage

Goto(next) ==
    /\ pc' = next
    /\ UNCHANGED <<exc, status, usage>>

(* line 38: parser.parse_args().  A required option that is missing makes  *)
(* argparse print the usage and exit with status 2.                        *)
ParseArgs ==
    /\ pc = "parse_args"
    /\ \E b \in BirthdateArgs, w \in NetWorthArgs, wd \in NetWorthDateArgs,
          wi \in WorkingSalaryArgs, wr \in WorkingReturnArgs,
          ws \in WorkingSpendingArgs, r \in RetirementAgeArgs,
          ri \in RetiredSalaryArgs, rr \in RetiredReturnArgs,
          rs \in RetiredSpendingArgs, td \in TargetDateArgs,
          tw \in TargetWorthArgs :
        IF b = None
          THEN /\ pc' = "exit"
               /\ status' = Some(2)
               /\ usage' = TRUE
               /\ UNCHANGED <<args, exc>>
          ELSE /\ args' =
                    [birthdate |-> b, net_worth |-> w, net_worth_date |-> wd,
                     working_salary |-> wi,
                     working_investment_return |->
                         Pct(OrDefault(wr, DefaultWorkingReturnPct)),
                     working_spending |-> ws, retirement_age |-> r,
                     retired_salary |-> OrDefault(ri, DefaultRetiredSalary),
                     retired_investment_return |->
                         Pct(OrDefault(rr, DefaultRetiredReturnPct)),
                     retired_spending |-> rs,
                     target_date |-> td, target_worth |-> tw]
               /\ Goto("birthdate")
    /\ UNCHANGED <<birthdate, date_0, profile, exprs, stdout, plotted, dateCall>>

(* line 40 *)
ParseBirthdate ==
    /\ pc = "birthdate"
    /\ IF WellFormed(args.birthdate)
         THEN /\ birthdate' = Some(Strptime(args.birthdate))
              /\ Goto("date_0")
         ELSE /\ Raise("ValueError")
              /\ UNCHANGED birthdate
    /\ UNCHANGED <<args, date_0, profile, exprs, stdout, plotted, dateCall>>

(* lines 41-42 *)
ParseDate0 ==
    /\ pc = "date_0"
    /\ worth_0' = IntRat(args.net_worth)
    /\ IF TruthyStr(args.net_worth_date)
         THEN IF WellFormed(args.net_worth_date)
                THEN /\ date_0' = Some(Strptime(args.net_worth_date))
                     /\ Goto("profile")
                ELSE /\ Raise("ValueError")
                     /\ UNCHANGED date_0
         ELSE /\ \E today \in Todays : date_0' = Some(Strptime(today))
              /\ Goto("profile")
    /\ UNCHANGED <<args, birthdate, working_salary, working_inv_return,
                   working_spending, retirement_age, retired_salary,
                   retired_inv_return, retired_spending, age_0,
                   exprs, stdout, plotted, dateCall>>

(* lines 43-51.  Line 47 reads args.retirement_age into retired_salary.    *)
Profile ==
    /\ pc = "profile"
    /\ working_salary' = IntRat(args.working_salary)
    /\ working_inv_return' = args.working_investment_return
    /\ working_spending' = IntRat(args.working_spending)
    /\ retirement_age' = IntRat(args.retirement_age)
    /\ retired_salary' = IntRat(args.retirement_age)
    /\ retired_inv_return' = args.retired_investment_return
    /\ retired_spending' = IntRat(args.retired_spending)
    /\ age_0' = Age0
    /\ Goto("worth_work")
    /\ UNCHANGED <<args, birthdate, worth_0, date_0, exprs, stdout, plotted, dateCall>>

(* lines 60-61: the float division raises on a zero rate.                  *)
BuildWorthWork ==
    /\ pc = "worth_work"
    /\ IF working_inv_return = Zero
         THEN /\ Raise("ZeroDivisionError")
              /\ UNCHANGED worth_work
         ELSE /\ worth_work' = Some(WorthWorkExpr)
              /\ Goto("worth_ret")
    /\ UNCHANGED <<args, birthdate, date_0, profile, worth_ret, age_by_worth,
                   break_even_worth, break_even_age, stdout, plotted, dateCall>>

(* lines 62-64 *)
BuildWorthRet ==
    /\ pc = "worth_ret"
    /\ IF retired_inv_return = Zero
         THEN /\ Raise("ZeroDivisionError")
              /\ UNCHANGED worth_ret
         ELSE /\ worth_ret' = Some(WorthRetExpr)
              /\ Goto("print_retirement")
    /\ UNCHANGED <<args, birthdate, date_0, profile, worth_work, age_by_worth,
                   break_even_worth, break_even_age, stdout, plotted, dateCall>>

(* line 66 *)
PrintRetirement ==
    /\ pc = "print_retirement"
    /\ stdout' = Append(stdout, Line("Est worth at retirement", None,
                                     Subs(Val(worth_ret), retirement_age), None))
    /\ Goto("target_date")
    /\ UNCHANGED <<args, birthdate, date_0, profile, exprs, plotted, dateCall>>

(* lines 67-71 *)
TargetDate ==
    /\ pc = "target_date"
    /\ IF TruthyStr(args.target_date)
         THEN IF WellFormed(args.target_date)
                THEN LET targetDate == Strptime(args.target_date)
                         targetAge == RatDiv(IntRat(targetDate - Val(birthdate)),
                                             DaysPerYear)
                     IN  /\ stdout' = stdout \o
                               << Line("Est worth on", Some(targetDate),
                                       worth_by_age(targetAge), None),
                                  Blank >>
                         /\ Goto("age_by_worth")
                ELSE /\ Raise("ValueError")
                     /\ UNCHANGED stdout
         ELSE /\ stdout' = Append(stdout, Blank)
              /\ Goto("age_by_worth")
    /\ UNCHANGED <<args, birthdate, date_0, profile, exprs, plotted, dateCall>>

(* lines 73-75 *)
BuildAgeByWorth ==
    /\ pc = "age_by_worth"
    /\ age_by_worth' = Some(AgeByWorthExpr)
    /\ Goto("break_even_worth")
    /\ UNCHANGED <<args, birthdate, date_0, profile, worth_work, worth_ret,
                   break_even_worth, break_even_age, stdout, plotted, dateCall>>

(* lines 78-79 *)
PrintBreakEvenWorth ==
    /\ pc = "break_even_worth"
    /\ break_even_worth' = BreakEvenWorth
    /\ stdout' = Append(stdout, Line("Break-even amount", None, BreakEvenWorth,
                                     Some(RoundHalfEven(BreakEvenWorth))))
    /\ Goto("break_even_age")
    /\ UNCHANGED <<args, birthdate, date_0, profile, worth_work, worth_ret,
                   age_by_worth, break_even_age, plotted, dateCall>>

(* lines 80-81: formatting an age that is not a real number raises         *)
(* TypeError, before ageToDate is called.                                  *)
PrintBreakEvenAge ==
    /\ pc = "break_even_age"
    /\ LET a == AgeSubs(Val(age_by_worth), break_even_worth)
       IN  /\ break_even_age' = Some(a)
           /\ IF a.kind = "real"
                THEN /\ stdout' = Append(stdout,
                            Line("Est break-even age", DateOfAge(a), a, None))
                     /\ Goto("target_worth")
                ELSE /\ Raise("TypeError")
                     /\ UNCHANGED stdout
    /\ UNCHANGED <<args, birthdate, date_0, profile, worth_work, worth_ret,
                   age_by_worth, break_even_worth, plotted, dateCall>>

(* lines 82-85 *)
TargetWorth ==
    /\ pc = "target_worth"
    /\ IF TruthyInt(args.target_worth)
         THEN LET targetWorth == Val(args.target_worth)
                  targetAge == AgeSubs(Val(age_by_worth), IntRat(targetWorth))
              IN  IF targetAge.kind = "real"
                    THEN /\ stdout' = Append(stdout,
                                Line("Est age at target worth",
                                     DateOfAge(targetAge), targetAge,
                                     Some(targetWorth)))
                         /\ Goto("plot")
                    ELSE /\ Raise("TypeError")
                         /\ UNCHANGED stdout
         ELSE /\ Goto("plot")
              /\ UNCHANGED stdout
    /\ UNCHANGED <<args, birthdate, date_0, profile, exprs, plotted, dateCall>>

(* line 88, then the interpreter exits with status 0.                      *)
Plot ==
    /\ pc = "plot"
    /\ plotted' = TRUE
    /\ pc' = "done"
    /\ status' = Some(0)
    /\ UNCHANGED <<args, birthdate, date_0, profile, exprs, stdout, exc, usage,
                   dateCall>>

Next ==
    \/ ParseArgs
    \/ ParseBirthdate
    \/ ParseDate0
    \/ Profile
    \/ BuildWorthWork
    \/ BuildWorthRet
    \/ PrintRetirement
    \/ TargetDate
    \/ BuildAgeByWorth
    \/ PrintBreakEvenWorth
    \/ PrintBreakEvenAge
    \/ TargetWorth
    \/ Plot

Spec == Init /\ [][Next]_vars

----------------------------------------------------------------------------
(* ageToDate on its own: the function is called with an age, after line 40 *)
(* has set birthdate.                                                      *)

MaxAgeNum == 20

AgeDens == {1, 2, 1461}

AgeInputs == {Rat(n, d) : n \in (-MaxAgeNum)..MaxAgeNum, d \in AgeDens}

InitDate ==
    /\ pc = "ageToDate"
    /\ args = NoArgs
    /\ birthdate \in {Some(Strptime(b)) : b \in {s \in BirthdateArgs \ {None} : WellFormed(s)}}
    /\ call \in AgeInputs
    /\ ret = None
    /\ worth_0 = None /\ date_0 = None
    /\ working_salary = None /\ working_inv_return = None
    /\ working_spending = None /\ retirement_age = None
    /\ retired_salary = None /\ retired_inv_return = None
    /\ retired_spending = None /\ age_0 = None
    /\ worth_work = None /\ worth_ret = None /\ age_by_worth = None
    /\ break_even_worth = None /\ break_even_age = None
    /\ stdout = <<>>
    /\ exc = NoExc
    /\ status = None
    /\ usage = FALSE
    /\ plotted = FALSE

(* lines 53-54 *)
CallAgeToDate ==
    /\ pc = "ageToDate"
    /\ ret' = Some(ageToDate(call))
    /\ pc' = "returned"
    /\ UNCHANGED <<args, birthdate, date_0, profile, exprs, stdout, exc, status,
                   usage, plotted, call>>

NextDate == CallAgeToDate

SpecDate == InitDate /\ [][NextDate]_vars

----------------------------------------------------------------------------
(* Properties.                                                             *)

MaxYears == 3

Terminated == pc \in {"done", "crashed", "exit"}

(* The working-phase closed form  (W0 + a/r) e^(r (age - age0)) - a/r      *)
(* written from the command line's values alone.                           *)
WorkingPhaseWorth(a) ==
    LET r    == args.working_investment_return
        flow == RatDiv(IntRat(args.working_salary - args.working_spending), r)
    IN  PolyAdd(PolyMulExp(PolyConst(RatAdd(IntRat(args.net_worth), flow)),
                           RatMul(r, RatSub(a, age_0))),
                PolyConst(RatNeg(flow)))

(* Ages around the retirement age, in half years, and the reference age.   *)
SampleAges ==
    {age_0} \cup {RatAdd(retirement_age, Rat(k, 2)) : k \in (-2 * MaxYears)..(2 * MaxYears)}

RetiredAges == {RatAdd(retirement_age, Rat(k, 2)) : k \in 0..(2 * MaxYears)}

(* The argument of the logarithm for a target worth w is defined and <= 0. *)
LnArgNonPositive(w) ==
    LET e == Val(age_by_worth)
    IN  /\ e.den # Zero
        /\ RatSign(RatDiv(RatAdd(w, e.shift), e.den)) <= 0

(* The target-worth lookup of lines 82-85 has been evaluated.              *)
TargetWorthEvaluated ==
    /\ TruthyInt(args.target_worth)
    /\ \/ pc \in {"plot", "done"}
       \/ pc = "crashed" /\ exc.at = "target_worth"

MalformedDateGiven ==
    \E s \in {args.birthdate, args.net_worth_date, args.target_date} :
        s # None /\ ~WellFormed(s)

ZeroRateGiven ==
    /\ pc # "parse_args"
    /\ pc # "exit"
    /\ \/ args.working_investment_return = Zero
       \/ args.retired_investment_return = Zero

(* C1: the reported break-even worth is                                    *)
(* -(retired_salary - retired_spending) / retired_return_rate with         *)
(* retired_salary the retired-salary argument of the command line.         *)
C1_BreakEvenFromRetiredSalaryArg ==
    break_even_worth # None =>
        LET want == RatDiv(RatNeg(RatSub(IntRat(args.retired_salary),
                                         IntRat(args.retired_spending))),
                           args.retired_investment_return)
        IN  /\ break_even_worth = want
            /\ LineOf("Break-even amount").shown = Some(RoundHalfEven(want))

(* C2: whenever the inverse is evaluated (for the break-even age or for    *)
(* the target worth) with a logarithm argument <= 0, the outcome is a      *)
(* DomainError: no age value is produced and no other exception surfaces.  *)
C2_UnreachableWorthIsDomainError ==
    /\ (break_even_age # None /\ LnArgNonPositive(break_even_worth)) =>
           exc.type = "DomainError"
    /\ (TargetWorthEvaluated /\ LnArgNonPositive(IntRat(Val(args.target_worth)))) =>
           exc.type = "DomainError"

(* C3: a failure at the break-even-age step does not prevent the           *)
(* target-worth age line from being printed when a target worth was given; *)
(* stated for the runs whose target worth is non-zero and has a real age,  *)
(* so that nothing but the earlier failure stands between it and its line. *)
C3_TargetLineSurvivesBreakEvenFailure ==
    (Terminated /\ exc.at = "break_even_age" /\ TruthyInt(args.target_worth)
       /\ AgeSubs(Val(age_by_worth), IntRat(Val(args.target_worth))).kind = "real") =>
        Printed("Est age at target worth")

(* C4: with a zero return rate the run reports an InputError before any    *)
(* model expression is built; a division by zero is never reached.         *)
C4_ZeroRateIsInputError ==
    ZeroRateGiven =>
        /\ worth_work = None /\ worth_ret = None /\ age_by_worth = None
        /\ exc.type # "ZeroDivisionError"
        /\ (Terminated /\ ~MalformedDateGiven) => exc.type = "InputError"

(* C5: a malformed date string is rejected at parse time: the run ends     *)
(* with a non-zero status and a usage message, and no result line has been *)
(* printed; in particular not after 'Est worth at retirement' is out.      *)
C5_MalformedDateRejectedAtParse ==
    /\ (Terminated /\ exc.type = "ValueError") =>
           /\ status # Some(0)
           /\ usage
           /\ stdout = <<>>
    /\ (pc \notin {"parse_args", "exit"} /\ args.target_date # None
           /\ ~WellFormed(args.target_date)) =>
           ~Printed("Est worth at retirement")

(* C6: the working-phase worth and the retired-phase worth agree at the    *)
(* retirement age, and the printed worth at retirement is the working-     *)
(* phase closed form: it depends on no retired-phase parameter.            *)
C6_ContinuousAtRetirement ==
    worth_ret # None =>
        /\ Subs(Val(worth_ret), retirement_age) = Subs(Val(worth_work), retirement_age)
        /\ worth_by_age(retirement_age) = Subs(Val(worth_ret), retirement_age)
        /\ Printed("Est worth at retirement") =>
               LineOf("Est worth at retirement").value =
                   WorkingPhaseWorth(IntRat(args.retirement_age))

(* C6 witness: a finished run with retired salary and spending given,     *)
(* whose worth at retirement is not the reference net worth.               *)
C6_Witness ==
    /\ pc = "done"
    /\ Printed("Est worth at retirement")
    /\ args.retired_salary = 20000
    /\ args.retired_spending = 60000
    /\ LineOf("Est worth at retirement").value # PolyConst(worth_0)

(* C7 as stated: with working_salary = working_spending the working-phase  *)
(* worth equals the reference net worth at every age.                      *)
C7_ZeroFlowConstant ==
    (worth_work # None /\ working_salary = working_spending) =>
        \A a \in SampleAges : Subs(Val(worth_work), a) = PolyConst(worth_0)

(* C7 amended: with working_salary = working_spending and a non-zero       *)
(* working return rate, the working-phase worth at an age is               *)
(* reference_net_worth * e^(r_w (age - age0)); it is the reference net     *)
(* worth at the reference age; the division of line 61 does not fail.      *)
C7_ZeroFlowCompounds ==
    (working_salary # None /\ pc # "worth_work"
       /\ working_salary = working_spending /\ working_inv_return # Zero) =>
        /\ worth_work # None
        /\ exc.at # "worth_work"
        /\ \A a \in SampleAges :
               Subs(Val(worth_work), a) =
                   PolyMulExp(PolyConst(worth_0),
                              RatMul(working_inv_return, RatSub(a, age_0)))
        /\ Subs(Val(worth_work), age_0) = PolyConst(worth_0)

(* C7 witness: a finished zero-flow run whose worth has grown by the       *)
(* retirement age.                                                         *)
C7_Witness ==
    /\ pc = "done"
    /\ working_salary = working_spending
    /\ worth_0 # Zero
    /\ Subs(Val(worth_work), retirement_age) # PolyConst(worth_0)

(* C8: if the worth at the retirement age is exactly the break-even worth, *)
(* the retired-phase worth is the break-even worth at every later age.     *)
C8_BreakEvenStationary ==
    (break_even_worth # None
       /\ Subs(Val(worth_ret), retirement_age) = PolyConst(break_even_worth)) =>
        \A a \in RetiredAges :
            /\ Subs(Val(worth_ret), a) = PolyConst(break_even_worth)
            /\ worth_by_age(a) = PolyConst(break_even_worth)

(* C8 witness: a run that reaches retirement exactly at a non-zero        *)
(* break-even worth.                                                       *)
C8_Witness ==
    /\ break_even_worth # None
    /\ break_even_worth # Zero
    /\ Subs(Val(worth_ret), retirement_age) = PolyConst(break_even_worth)

(* Day offset of a computed date, and age * 365.25, for a finished call.   *)
DayOffset == Val(ret) - Val(birthdate)

AgeDays == RatMul(call, DaysPerYear)

RatLess(p, q) == RatSign(RatSub(p, q)) < 0

(* C9 as stated: the day offset is the nearest integer to age * 365.25.    *)
C9_AgeToDateRounds ==
    ret # None =>
        RatLeq(Rat(Abs(DayOffset * AgeDays[2] - AgeDays[1]), AgeDays[2]), Rat(1, 2))

(* C9 amended: the day offset is age * 365.25 with its fraction dropped,   *)
(* that is the integer n nearest to zero with |n| <= |age * 365.25| <      *)
(* |n| + 1 and the sign of the age.                                        *)
C9_AgeToDateTruncates ==
    ret # None =>
        /\ RatSign(AgeDays) >= 0 =>
               /\ RatLeq(IntRat(DayOffset), AgeDays)
               /\ RatLess(AgeDays, IntRat(DayOffset + 1))
        /\ RatSign(AgeDays) <= 0 =>
               /\ RatLeq(AgeDays, IntRat(DayOffset))
               /\ RatLess(IntRat(DayOffset - 1), AgeDays)

(* C9 witness: a call with a negative age whose day count has a fraction. *)
C9_Witness ==
    /\ ret # None
    /\ RatSign(AgeDays) < 0
    /\ AgeDays[2] # 1
    /\ DayOffset < 0

(* C10: the target lines are printed exactly when the argument was given:  *)
(* the age-at-target-worth line for every supplied target worth, 0         *)
(* included, and the worth-on-target-date line iff a target date was given. *)
C10_TargetLinesIffSupplied ==
    pc = "done" =>
        /\ Printed("Est age at target worth") <=> args.target_worth # None
        /\ Printed("Est worth on") <=> args.target_date # None

====
